---- MODULE Spec2Model ----
(***************************************************************************)
(* Model of telbotScript_v3.py: the /alert command, the inline buttons,    *)
(* and the repeating check_alerts job of the exchange-rate bot.            *)
(*                                                                         *)
(* A handler runs on the asyncio event loop; it is atomic between its      *)
(* awaits.  check_alerts has one await that matters (bot.send_message), so *)
(* a tick is two steps: the evaluation (lines 121-127) and the return of   *)
(* the send (lines 128-132).  An exception that leaves check_alerts is      *)
(* caught by the job queue, which keeps the job.                           *)
(*                                                                         *)
(* fetch_exchange_rates calls requests.get, which is not awaited: from the *)
(* call to its return the event loop's only thread is inside it, and no    *)
(* handler, no other job and no completion of a send runs.                 *)
(*                                                                         *)
(* start(), rate() and the get_rates and set_alert buttons only answer     *)
(* with a text: they read and write no user_data and no job, and are left  *)
(* out.  A user is identified with the private chat the bot talks to.      *)
(***************************************************************************)
EXTENDS Integers, Sequences, FiniteSets, TLC

\* ------------------------------------------------------------------ bounds
\* The alerts stored, the jobs scheduled and the runs of check_alerts, together.
MaxEvents == 5

\* ------------------------------------------------------------------ inputs
Users == {1, 2}     \* chat ids

\* Second token of an /alert message.
PairTokens == {"usd/ngn", "BTC/USD"}
\* Third token of an /alert message.
ThresholdTokens == {"4", "-5", "abc"}

\* update.message.text.split() for the messages the model sends to /alert.
AlertMessages ==
    {<<"/alert">>}
    \cup {<<"/alert", p>> : p \in PairTokens}
    \cup {<<"/alert", p, t>> : p \in PairTokens, t \in ThresholdTokens}

\* The "rates" object of a reply of the rates API: a dict that may lack NGN, or GBP
\* and EUR.
ApiRates ==
    {r \in UNION {[S -> {1, 2, 4}] : S \in SUBSET {"NGN", "GBP", "EUR"}} :
        /\ "NGN" \in DOMAIN r => r["NGN"] \in {2, 4}
        /\ "GBP" \in DOMAIN r => r["GBP"] = 2
        /\ "EUR" \in DOMAIN r => r["EUR"] = 1
        /\ "GBP" \in DOMAIN r <=> "EUR" \in DOMAIN r}

EmptyDict == [k \in {} |-> 0]

\* What requests.get + raise_for_status + json() give: a RequestException is raised,
\* or data.get("rates", {}) is a dict.
ApiReplies ==
    {[error |-> TRUE, rates |-> EmptyDict]}
    \cup {[error |-> FALSE, rates |-> r] : r \in ApiRates}

\* Outcomes of bot.send_message: it returns, or raises a TelegramError.
SendOutcomes == {"delivered", "deliveryError"}

\* ------------------------------------------------------------------ state
VARIABLES
    job_queue_on,   \* context.job_queue is not None (the optional dependency is installed)
    user_data,      \* chat id -> that user's context.user_data, a dict
    jobs,           \* job id -> the job on the job queue: its data (user_id, alert), where
                    \* its callback is (pc, rate) and its history (ticks, fails, alertNo)
    nextJob,        \* the id run_repeating gives the next job
    outbox,         \* the send_message calls of check_alerts that have returned or raised
    alertSeq,       \* history: chat id -> number of /alert commands that stored an alert
    reply,          \* the last text a handler sent back, and to whom
    ticks,          \* history: the runs of check_alerts so far
    fetching        \* the job whose check_alerts is inside requests.get, 0 when none is

vars == <<job_queue_on, user_data, jobs, nextJob, outbox, alertSeq, reply, ticks, fetching>>

\* What the bound counts.
Events == alertSeq[1] + alertSeq[2] + (nextJob - 1) + ticks

\* The ids run_repeating can have given.
JobIds == 1..MaxEvents

\* ------------------------------------------------------------------ pure functions

\* upper that leaves the token as it was typed.
upper_Identity(s) == s

\* str.upper() on the pair tokens.
upper(s) ==
    CASE s = "usd/ngn" -> "USD/NGN"
      [] OTHER -> s

\* float(): the tokens it accepts.
IsFloat(s) == s \in {"4", "-5"}

float(s) ==
    CASE s = "4" -> 4
      [] s = "-5" -> -5

\* dict.get(key, default) for a key with a number as its default.
get(d, key, default) == IF key \in DOMAIN d THEN d[key] ELSE default

\* fetch_exchange_rates returns None: the except clause of lines 30-32.
FetchNone(api) == api.error

\* fetch_exchange_rates raises: rates.get("NGN", "N/A") is "N/A" and "N/A" / number
\* is a TypeError, which `except requests.RequestException` does not catch.
FetchRaises(api) == ~api.error /\ "NGN" \notin DOMAIN api.rates

\* fetch_exchange_rates, the dict of lines 25-29.  The model's rates divide exactly.
fetch_exchange_rates(api) ==
    [p \in {"USD/NGN", "GBP/NGN", "EUR/NGN"} |->
        CASE p = "USD/NGN" -> api.rates["NGN"]
          [] p = "GBP/NGN" -> api.rates["NGN"] \div get(api.rates, "GBP", 1)
          [] p = "EUR/NGN" -> api.rates["NGN"] \div get(api.rates, "EUR", 1)]

\* Triggers with `>` for `>=`.
Triggers_Strict(rates, pair, threshold) ==
    /\ pair \in DOMAIN rates
    /\ rates[pair] # 0
    /\ rates[pair] > threshold

\* Lines 126-127: current_rate = rates.get(currency_pair, None), then
\* `current_rate and current_rate >= threshold_rate`.
Triggers(rates, pair, threshold) ==
    /\ pair \in DOMAIN rates
    /\ rates[pair] # 0
    /\ rates[pair] >= threshold

\* The event loop's thread is not inside a call of requests.get (line 21).
LoopFree == fetching = 0

\* Line 73: `"alerts" in context.user_data`.
HasAlert(u) == "alerts" \in DOMAIN user_data[u]

Remove(f, k) == [x \in DOMAIN f \ {k} |-> f[x]]

Put(f, k, v) == [x \in DOMAIN f \cup {k} |-> IF x = k THEN v ELSE f[x]]

\* ------------------------------------------------------------------ initial state
Init ==
    /\ job_queue_on \in BOOLEAN
    /\ user_data = [u \in Users |-> EmptyDict]
    /\ jobs = EmptyDict
    /\ nextJob = 1
    /\ outbox = {}
    /\ alertSeq = [u \in Users |-> 0]
    /\ reply = [chat_id |-> 0, text |-> "None"]
    /\ ticks = 0
    /\ fetching = 0

\* ------------------------------------------------------------------ handlers

\* alert that forgets the stored alert when the message is not accepted.
alert_ClearsOnError(u, msg) ==
    /\ LoopFree
    /\ IF Len(msg) >= 3 /\ IsFloat(msg[3])
       THEN /\ Events < MaxEvents
            /\ user_data' = [user_data EXCEPT ![u] =
                               Put(@, "alerts", <<upper(msg[2]), float(msg[3])>>)]
            /\ alertSeq' = [alertSeq EXCEPT ![u] = @ + 1]
            /\ reply' = [chat_id |-> u, text |-> "Alert set"]
            /\ UNCHANGED <<job_queue_on, jobs, nextJob, outbox, ticks, fetching>>
       ELSE /\ reply' = [chat_id |-> u, text |-> "Usage"]
            /\ user_data' = [user_data EXCEPT ![u] = Remove(@, "alerts")]
            /\ UNCHANGED <<job_queue_on, jobs, nextJob, outbox, alertSeq, ticks, fetching>>

\* alert that stores into one dict shared by all users instead of context.user_data.
alert_SharedStore(u, msg) ==
    /\ LoopFree
    /\ IF Len(msg) >= 3 /\ IsFloat(msg[3])
       THEN /\ Events < MaxEvents
            /\ user_data' = [v \in Users |->
                               Put(user_data[v], "alerts", <<upper(msg[2]), float(msg[3])>>)]
            /\ alertSeq' = [alertSeq EXCEPT ![u] = @ + 1]
            /\ reply' = [chat_id |-> u, text |-> "Alert set"]
            /\ UNCHANGED <<job_queue_on, jobs, nextJob, outbox, ticks, fetching>>
       ELSE /\ reply' = [chat_id |-> u, text |-> "Usage"]
            /\ UNCHANGED <<job_queue_on, user_data, jobs, nextJob, outbox, alertSeq,
                           ticks, fetching>>

\* alert that also calls run_repeating for the alert it stores.
alert_AutoSchedule(u, msg) ==
    /\ LoopFree
    /\ IF Len(msg) >= 3 /\ IsFloat(msg[3])
       THEN /\ Events + 1 < MaxEvents
            /\ user_data' = [user_data EXCEPT ![u] =
                               Put(@, "alerts", <<upper(msg[2]), float(msg[3])>>)]
            /\ alertSeq' = [alertSeq EXCEPT ![u] = @ + 1]
            /\ reply' = [chat_id |-> u, text |-> "Alert set"]
            /\ jobs' = Put(jobs, nextJob,
                           [user_id |-> u,
                            alert |-> <<upper(msg[2]), float(msg[3])>>,
                            pc |-> "armed", rate |-> 0, ticks |-> 0, fails |-> 0,
                            alertNo |-> alertSeq[u] + 1])
            /\ nextJob' = nextJob + 1
            /\ UNCHANGED <<job_queue_on, outbox, ticks, fetching>>
       ELSE /\ reply' = [chat_id |-> u, text |-> "Usage"]
            /\ UNCHANGED <<job_queue_on, user_data, jobs, nextJob, outbox, alertSeq,
                           ticks, fetching>>

\* alert(): lines 105-117.
alert(u, msg) ==
    /\ LoopFree
    /\ IF Len(msg) >= 3 /\ IsFloat(msg[3])
       THEN /\ Events < MaxEvents
            /\ user_data' = [user_data EXCEPT ![u] =
                               Put(@, "alerts", <<upper(msg[2]), float(msg[3])>>)]
            /\ alertSeq' = [alertSeq EXCEPT ![u] = @ + 1]
            /\ reply' = [chat_id |-> u, text |-> "Alert set"]
            /\ UNCHANGED <<job_queue_on, jobs, nextJob, outbox, ticks, fetching>>
       ELSE /\ reply' = [chat_id |-> u, text |-> "Usage"]
            /\ UNCHANGED <<job_queue_on, user_data, jobs, nextJob, outbox, alertSeq,
                           ticks, fetching>>

\* The job run_repeating creates at lines 75-83.
NewJob(u) ==
    [user_id |-> u,
     alert |-> user_data[u]["alerts"],
     pc |-> "armed",
     rate |-> 0,
     ticks |-> 0,
     fails |-> 0,
     alertNo |-> alertSeq[u]]

\* schedule_alert without the test of line 73, the alert read with .get("alerts").
schedule_alert_NoCheck(u) ==
    /\ LoopFree
    /\ job_queue_on
    /\ Events < MaxEvents
    /\ jobs' = Put(jobs, nextJob,
                   IF HasAlert(u)
                   THEN NewJob(u)
                   ELSE [user_id |-> u, alert |-> <<"None", 0>>, pc |-> "armed",
                         rate |-> 0, ticks |-> 0, fails |-> 0, alertNo |-> 0])
    /\ nextJob' = nextJob + 1
    /\ reply' = [chat_id |-> u, text |-> "Alert monitoring started."]
    /\ UNCHANGED <<job_queue_on, user_data, outbox, alertSeq, ticks, fetching>>

\* button_handler(), the schedule_alert branch: lines 72-88.
schedule_alert(u) ==
    /\ LoopFree
    /\ IF HasAlert(u)
       THEN IF job_queue_on
            THEN /\ Events < MaxEvents
                 /\ jobs' = Put(jobs, nextJob, NewJob(u))
                 /\ nextJob' = nextJob + 1
                 /\ reply' = [chat_id |-> u, text |-> "Alert monitoring started."]
                 /\ UNCHANGED <<job_queue_on, user_data, outbox, alertSeq, ticks, fetching>>
            ELSE /\ reply' = [chat_id |-> u, text |-> "Job queue is not available."]
                 /\ UNCHANGED <<job_queue_on, user_data, jobs, nextJob, outbox, alertSeq,
                                ticks, fetching>>
       ELSE /\ reply' = [chat_id |-> u, text |-> "No alert set. Use /alert first."]
            /\ UNCHANGED <<job_queue_on, user_data, jobs, nextJob, outbox, alertSeq,
                           ticks, fetching>>

\* button_handler() with query.data = "schedule_alert": lines 48-52 and 72-88.
button_handler(u) == schedule_alert(u)

\* ------------------------------------------------------------------ the job

\* check_alerts(), lines 120-124 down to requests.get at line 21: the job's timer has
\* fired and its callback has called fetch_exchange_rates, which has not returned.
requests_get(j) ==
    /\ LoopFree
    /\ j \in DOMAIN jobs
    /\ jobs[j].pc = "armed"
    /\ Events < MaxEvents
    /\ fetching' = j
    /\ UNCHANGED <<job_queue_on, user_data, jobs, nextJob, outbox, alertSeq, reply, ticks>>

\* check_alerts with job.schedule_removal() also run when no rates came back.
check_alerts_DropOnFetchFailure(j, api) ==
    /\ fetching = j
    /\ fetching' = 0
    /\ j \in DOMAIN jobs
    /\ jobs[j].pc = "armed"
    /\ Events < MaxEvents
    /\ ticks' = ticks + 1
    /\ jobs' = IF FetchNone(api)
               THEN Remove(jobs, j)
               ELSE [jobs EXCEPT ![j] =
                       IF /\ ~FetchRaises(api)
                          /\ Triggers(fetch_exchange_rates(api), jobs[j].alert[1], jobs[j].alert[2])
                       THEN [@ EXCEPT !.ticks = @ + 1,
                                      !.pc = "sending",
                                      !.rate = fetch_exchange_rates(api)[jobs[j].alert[1]]]
                       ELSE IF FetchRaises(api)
                       THEN [@ EXCEPT !.ticks = @ + 1, !.fails = @ + 1]
                       ELSE [@ EXCEPT !.ticks = @ + 1]]
    /\ UNCHANGED <<job_queue_on, user_data, nextJob, outbox, alertSeq, reply>>

\* check_alerts(), lines 120-127, from the return of requests.get: the rates are
\* there (or not), the condition is decided on the job's data, and when it holds the
\* callback awaits send_message.
check_alerts(j, api) ==
    /\ fetching = j
    /\ fetching' = 0
    /\ j \in DOMAIN jobs
    /\ jobs[j].pc = "armed"
    /\ Events < MaxEvents
    /\ ticks' = ticks + 1
    /\ jobs' = [jobs EXCEPT ![j] =
                  IF /\ ~FetchNone(api)
                     /\ ~FetchRaises(api)
                     /\ Triggers(fetch_exchange_rates(api), jobs[j].alert[1], jobs[j].alert[2])
                  THEN [@ EXCEPT !.ticks = @ + 1,
                                 !.pc = "sending",
                                 !.rate = fetch_exchange_rates(api)[jobs[j].alert[1]]]
                  ELSE IF FetchNone(api) \/ FetchRaises(api)
                  THEN [@ EXCEPT !.ticks = @ + 1, !.fails = @ + 1]
                  ELSE [@ EXCEPT !.ticks = @ + 1]]
    /\ UNCHANGED <<job_queue_on, user_data, nextJob, outbox, alertSeq, reply>>

\* send_message with the threshold printed in the place of the rate.
Sent_ThresholdAsRate(j, outcome) ==
    [chat_id |-> jobs[j].user_id,
     pair |-> jobs[j].alert[1],
     rate |-> jobs[j].alert[2],
     threshold |-> jobs[j].alert[2],
     job |-> j,
     tick |-> jobs[j].ticks,
     alertNo |-> jobs[j].alertNo,
     outcome |-> outcome]

\* The call of send_message at lines 128-131, as it ended.
Sent(j, outcome) ==
    [chat_id |-> jobs[j].user_id,
     pair |-> jobs[j].alert[1],
     rate |-> jobs[j].rate,
     threshold |-> jobs[j].alert[2],
     job |-> j,
     tick |-> jobs[j].ticks,
     alertNo |-> jobs[j].alertNo,
     outcome |-> outcome]

\* send_message_done without job.schedule_removal(): the job stays on the queue.
send_message_done_KeepsJob(j, outcome) ==
    /\ LoopFree
    /\ j \in DOMAIN jobs
    /\ jobs[j].pc = "sending"
    /\ outbox' = outbox \cup {Sent(j, outcome)}
    /\ jobs' = [jobs EXCEPT ![j] = [@ EXCEPT !.pc = "armed", !.rate = 0]]
    /\ UNCHANGED <<job_queue_on, user_data, nextJob, alertSeq, reply, ticks, fetching>>

\* check_alerts(), lines 128-132: send_message returns and the job removes itself,
\* or send_message raises and line 132 is not reached.
send_message_done(j, outcome) ==
    /\ LoopFree
    /\ j \in DOMAIN jobs
    /\ jobs[j].pc = "sending"
    /\ outbox' = outbox \cup {Sent(j, outcome)}
    /\ jobs' = IF outcome = "delivered"
               THEN Remove(jobs, j)
               ELSE [jobs EXCEPT ![j] = [@ EXCEPT !.pc = "armed", !.rate = 0]]
    /\ UNCHANGED <<job_queue_on, user_data, nextJob, alertSeq, reply, ticks, fetching>>

\* ------------------------------------------------------------------ specification
Next ==
    \/ \E u \in Users, msg \in AlertMessages : alert(u, msg)
    \/ \E u \in Users : button_handler(u)
    \/ \E j \in JobIds : requests_get(j)
    \/ \E j \in JobIds, api \in ApiReplies : check_alerts(j, api)
    \/ \E j \in JobIds, o \in SendOutcomes : send_message_done(j, o)

Spec == Init /\ [][Next]_vars

\* ------------------------------------------------------------------ fair runs
\* The runs in which the timers of run_repeating keep firing, requests.get returns and
\* send_message ends. The event budget is finite, so these runs keep one evaluation in
\* hand for every armed job: what does not lead a job to its notification (a failed
\* fetch, a rate under the threshold, a failed send, a new alert or job) happens only
\* while the budget has room for it, and from then on every fetch gives a rate at or
\* above the threshold and every send is delivered.
Armed == {j \in DOMAIN jobs : jobs[j].pc = "armed"}

Room == Events + Cardinality(Armed) <= MaxEvents

\* Some reply of the API makes the job's condition at line 127 true.
CanTrigger(j) ==
    \E api \in ApiReplies :
        /\ ~FetchNone(api)
        /\ ~FetchRaises(api)
        /\ Triggers(fetch_exchange_rates(api), jobs[j].alert[1], jobs[j].alert[2])

LiveAlert(u, msg) == alert(u, msg) /\ Room'

LiveButton(u) == button_handler(u) /\ Room'

\* The interval of run_repeating (line 77) has passed for job j.
TimerFires(j) ==
    /\ requests_get(j)
    /\ CanTrigger(j) \/ Events + Cardinality(Armed) < MaxEvents

LiveCheck(j, api) == check_alerts(j, api) /\ Room'

LiveSend(j, outcome) == send_message_done(j, outcome) /\ Room'

LiveNext ==
    \/ \E u \in Users, msg \in AlertMessages : LiveAlert(u, msg)
    \/ \E u \in Users : LiveButton(u)
    \/ \E j \in JobIds : TimerFires(j)
    \/ \E j \in JobIds, api \in ApiReplies : LiveCheck(j, api)
    \/ \E j \in JobIds, o \in SendOutcomes : LiveSend(j, o)

Fairness ==
    \A j \in JobIds :
        /\ WF_vars(TimerFires(j))
        /\ WF_vars(\E api \in ApiReplies : LiveCheck(j, api))
        /\ WF_vars(\E o \in SendOutcomes : LiveSend(j, o))

LiveSpec == Init /\ [][LiveNext]_vars /\ Fairness

\* ------------------------------------------------------------------ vocabulary of the claims

NoAlertText == "No alert set. Use /alert first."

\* The notifications a user received.
Delivered == {e \in outbox : e.outcome = "delivered"}

\* What a successful fetch shows for a pair at a threshold, stated without Triggers.
Present(api, pair) == pair \in DOMAIN fetch_exchange_rates(api)

Reached(api, pair, threshold) ==
    Present(api, pair) /\ fetch_exchange_rates(api)[pair] >= threshold

FetchOk(api) == ~FetchNone(api) /\ ~FetchRaises(api)

\* Job j's user has since stored another alert and started monitoring it.
Superseded(j) ==
    \E k \in DOMAIN jobs :
        /\ k > j
        /\ jobs[k].user_id = jobs[j].user_id
        /\ jobs[k].alertNo > jobs[j].alertNo

\* The user's current alert has fired: a notification for it was attempted.
Triggered(u) == \E e \in outbox : e.chat_id = u /\ e.alertNo = alertSeq[u]

\* ------------------------------------------------------------------ C1
\* C1: an alert put under monitoring produces at most one notification, whatever the
\* users do, and a notification is only produced on a tick whose rate is >= the threshold.
C1_AtMostOneNotificationPerAlert ==
    /\ \A e1, e2 \in Delivered :
          (e1.chat_id = e2.chat_id /\ e1.alertNo = e2.alertNo) => e1 = e2
    /\ \A e \in outbox : e.rate >= e.threshold

\* ------------------------------------------------------------------ C2
\* C2: once the user has stored a new alert and started monitoring it, the job of the
\* alert it replaced runs check_alerts no more.
C2_SupersededJobTicksNoMore ==
    [][\A j \in DOMAIN jobs :
          (Superseded(j) /\ j \in DOMAIN jobs') => jobs'[j].ticks = jobs[j].ticks]_vars

\* ------------------------------------------------------------------ C3
\* C3: in every state the job queue holds at most one job per user and pair.
C3_OneJobPerUserAndPair ==
    \A j, k \in DOMAIN jobs :
        (jobs[j].user_id = jobs[k].user_id /\ jobs[j].alert[1] = jobs[k].alert[1])
            => j = k

\* ------------------------------------------------------------------ C4
\* C4: a job whose send_message failed is off the job queue, and no job attempts a
\* second send.
C4_RemovedWhateverTheSendOutcome ==
    /\ \A e \in outbox : e.outcome = "deliveryError" => e.job \notin DOMAIN jobs
    /\ \A e1, e2 \in outbox : e1.job = e2.job => e1 = e2

\* ------------------------------------------------------------------ C5
\* C5: a run of check_alerts whose fetch fails sends nothing and leaves the job on the
\* queue, armed, however many fetches failed before; a run whose fetch succeeds with
\* the pair's rate >= the threshold starts the notification, whatever failed before.
C5_FetchFailureIsNoTrigger ==
    [][\A j \in DOMAIN jobs, api \in ApiReplies :
          check_alerts(j, api) =>
            /\ ~FetchOk(api) =>
                  /\ j \in DOMAIN jobs'
                  /\ jobs'[j].pc = "armed"
                  /\ jobs'[j].user_id = jobs[j].user_id
                  /\ jobs'[j].alert = jobs[j].alert
                  /\ outbox' = outbox
            /\ (FetchOk(api) /\ Reached(api, jobs[j].alert[1], jobs[j].alert[2])) =>
                  /\ j \in DOMAIN jobs'
                  /\ jobs'[j].pc = "sending"]_vars

\* A job one of whose fetches failed is sending its notification.
C5_Witness ==
    \E j \in DOMAIN jobs : jobs[j].fails >= 1 /\ jobs[j].pc = "sending"

\* ------------------------------------------------------------------ C6
\* C6: after a successful fetch, check_alerts starts the notification exactly when the
\* pair is in the snapshot with a rate >= the threshold; when the pair is not in the
\* snapshot the job stays on the queue, armed.
C6_TriggerIffRateReachesThreshold ==
    [][\A j \in DOMAIN jobs, api \in ApiReplies :
          (FetchOk(api) /\ check_alerts(j, api)) =>
            /\ j \in DOMAIN jobs'
            /\ jobs'[j].pc = "sending" <=> Reached(api, jobs[j].alert[1], jobs[j].alert[2])
            /\ jobs'[j].pc = "sending" =>
                  jobs'[j].rate = fetch_exchange_rates(api)[jobs[j].alert[1]]
            /\ ~Present(api, jobs[j].alert[1]) => jobs'[j].pc = "armed"]_vars

\* After a miss, a notification is being sent for a rate equal to the threshold.
C6_Witness ==
    \E j \in DOMAIN jobs :
        /\ jobs[j].pc = "sending"
        /\ jobs[j].rate = jobs[j].alert[2]
        /\ jobs[j].ticks = 2
        /\ jobs[j].fails = 0

\* ------------------------------------------------------------------ C7
\* C7: once a notification was attempted for the user's current alert, pressing the
\* start-monitoring button puts no job for that user on the queue.
C7_TriggeredAlertIsNotSchedulable ==
    [][\A u \in Users :
          Triggered(u) =>
            \A j \in DOMAIN jobs' \ DOMAIN jobs : jobs'[j].user_id # u]_vars

\* ------------------------------------------------------------------ C8
\* C8: no stored alert and no job has a threshold <= 0.
C8_NoNonPositiveThreshold ==
    /\ \A u \in Users : HasAlert(u) => user_data[u]["alerts"][2] > 0
    /\ \A j \in DOMAIN jobs : jobs[j].alert[2] > 0

\* ------------------------------------------------------------------ C9
\* C9: pressing the start-monitoring button for a user who never stored an alert
\* answers "No alert set" and leaves the job queue as it was.
C9_NoAlertNoJob ==
    [][\A u \in Users :
          (alertSeq[u] = 0 /\ button_handler(u)) =>
            /\ jobs' = jobs
            /\ nextJob' = nextJob
            /\ reply' = [chat_id |-> u, text |-> NoAlertText]]_vars

\* The button was answered "No alert set" for a user who never stored an alert, while
\* the other user has one.
C9_Witness ==
    /\ reply.text = NoAlertText
    /\ alertSeq[reply.chat_id] = 0
    /\ \E u \in Users : HasAlert(u)

\* ------------------------------------------------------------------ C11
\* What the tokens of the model's /alert messages stand for, written out.
UpperCaseOf == [p \in PairTokens |-> IF p = "usd/ngn" THEN "USD/NGN" ELSE p]

NumberOf == [t \in {"4", "-5"} |-> IF t = "4" THEN 4 ELSE 0 - 5]

\* C11: right after an /alert that is accepted, the user's user_data holds exactly one
\* alert, the given pair in upper case with the given threshold, whatever it held
\* before.
C11_StoredAlertIsWhatWasGiven ==
    [][\A u \in Users, msg \in AlertMessages :
          (Len(msg) = 3 /\ msg[3] \in DOMAIN NumberOf /\ alert(u, msg)) =>
            /\ DOMAIN user_data'[u] = {"alerts"}
            /\ user_data'[u]["alerts"] = <<UpperCaseOf[msg[2]], NumberOf[msg[3]]>>
            /\ reply' = [chat_id |-> u, text |-> "Alert set"]]_vars

\* A user's second alert is stored, its pair typed in lower case, in place of an alert
\* for another pair.
C11_Witness ==
    /\ reply.text = "Alert set"
    /\ alertSeq[reply.chat_id] = 2
    /\ user_data[reply.chat_id]["alerts"][1] = "USD/NGN"
    /\ \E j \in DOMAIN jobs :
          jobs[j].user_id = reply.chat_id /\ jobs[j].alert[1] = "BTC/USD"

\* ------------------------------------------------------------------ C12
\* C12: while one job is inside its fetch, the tick of another user's job that is due
\* can start.
C12_FetchDoesNotDelayOtherJobs ==
    \A a \in DOMAIN jobs, b \in DOMAIN jobs :
        (/\ fetching = a
         /\ jobs[b].user_id # jobs[a].user_id
         /\ jobs[b].pc = "armed"
         /\ Events < MaxEvents)
            => ENABLED requests_get(b)

\* ------------------------------------------------------------------ C14
\* C14: the pair and threshold a job evaluates are the ones user_data holds for the
\* job's user.
C14_JobEvaluatesTheStoredAlert ==
    \A j \in DOMAIN jobs : jobs[j].alert = user_data[jobs[j].user_id]["alerts"]

\* ------------------------------------------------------------------ C15
\* The /alert messages that lack an argument or whose threshold is no number.
Malformed(msg) == Len(msg) < 3 \/ msg[3] = "abc"

\* C15: an /alert that lacks the pair or the threshold, or whose threshold is no
\* number, gets the usage reply and changes neither the stored alerts nor the jobs.
C15_MalformedAlertChangesNothing ==
    [][\A u \in Users, msg \in AlertMessages :
          (Malformed(msg) /\ alert(u, msg)) =>
            /\ reply' = [chat_id |-> u, text |-> "Usage"]
            /\ UNCHANGED <<user_data, jobs, nextJob, outbox, alertSeq>>]_vars

\* The usage reply went to a user who has an alert stored and a job on the queue.
C15_Witness ==
    /\ reply.text = "Usage"
    /\ HasAlert(reply.chat_id)
    /\ \E j \in DOMAIN jobs : jobs[j].user_id = reply.chat_id

\* ------------------------------------------------------------------ C16
\* C16: /alert adds no job, runs no tick and sends nothing, and the alert it stored has
\* no job; a job comes onto the queue only in a step that answers "Alert monitoring
\* started." to the job's user, and it has not been evaluated then.
C16_AlertAloneStartsNoMonitoring ==
    [][/\ \A u \in Users, msg \in AlertMessages :
            alert(u, msg) =>
              /\ UNCHANGED <<jobs, nextJob, outbox, ticks, fetching>>
              /\ alertSeq'[u] # alertSeq[u] =>
                   \A j \in DOMAIN jobs' :
                       ~(jobs'[j].user_id = u /\ jobs'[j].alertNo = alertSeq'[u])
       /\ \A j \in DOMAIN jobs' \ DOMAIN jobs :
            /\ reply' = [chat_id |-> jobs'[j].user_id, text |-> "Alert monitoring started."]
            /\ jobs'[j].ticks = 0
            /\ jobs'[j].pc = "armed"
            /\ fetching' # j]_vars

\* An alert has just been stored while another job has already been evaluated, and the
\* new alert has no job.
C16_Witness ==
    /\ reply.text = "Alert set"
    /\ ticks >= 1
    /\ jobs # EmptyDict
    /\ \A j \in DOMAIN jobs :
          ~(jobs[j].user_id = reply.chat_id /\ jobs[j].alertNo = alertSeq[reply.chat_id])

\* ------------------------------------------------------------------ C17
\* C17: a tick that goes on to send has read, on that tick, a rate of the job's pair
\* at or above the job's threshold, and the message sent carries the job's pair, that
\* rate and the job's threshold and goes to the chat the job was scheduled from.
C17_NotificationReportsTheFiringTick ==
    [][/\ \A j \in JobIds, api \in ApiReplies :
            (check_alerts(j, api) /\ jobs'[j].pc = "sending") =>
              /\ jobs[j].alert[1] = "USD/NGN"
              /\ jobs'[j].rate = api.rates["NGN"]
              /\ jobs'[j].rate >= jobs[j].alert[2]
              /\ jobs'[j].ticks = jobs[j].ticks + 1
       /\ \A j \in JobIds, o \in SendOutcomes :
            send_message_done(j, o) =>
              \E e \in outbox' :
                  /\ e.job = j
                  /\ e.tick = jobs[j].ticks
                  /\ e.chat_id = jobs[j].user_id
                  /\ e.pair = jobs[j].alert[1]
                  /\ e.rate = jobs[j].rate
                  /\ e.threshold = jobs[j].alert[2]
                  /\ e.outcome = o
                  /\ outbox' = outbox \cup {e}]_vars

\* Threshold 4, reached on the third tick: the one notification there is went out on
\* tick 3 with rate 4 and threshold 4, and the job is off the queue.
C17_Witness ==
    \E e \in outbox :
        /\ e.outcome = "delivered"
        /\ e.tick = 3
        /\ e.rate = 4
        /\ e.threshold = 4
        /\ e.pair = "USD/NGN"
        /\ e.job \notin DOMAIN jobs
        /\ outbox = {e}

\* ------------------------------------------------------------------ C18
\* C18: in the fair runs, a job on the queue whose pair the API lists at a rate that
\* reaches its threshold ends with its notification delivered and the job off the
\* queue.
C18_ArmedJobEventuallyNotifies ==
    \A j \in JobIds :
        (j \in DOMAIN jobs /\ jobs[j].pc = "armed" /\ CanTrigger(j))
            ~> (j \notin DOMAIN jobs
                /\ \E e \in outbox : e.job = j /\ e.outcome = "delivered")

\* A job that met a failed fetch and a failed send has delivered its notification and
\* is off the queue.
C18_Witness ==
    \E e \in outbox, f \in outbox :
        /\ e.job = f.job
        /\ e.job \notin DOMAIN jobs
        /\ e.outcome = "delivered"
        /\ f.outcome = "deliveryError"
        /\ e.tick >= 3

\* ------------------------------------------------------------------ C19
\* What user u has in the store and on the queue.
Owned(u, store, queue) ==
    <<store[u], {<<j, queue[j]>> : j \in {k \in DOMAIN queue : queue[k].user_id = u}}>>

\* The jobs already on the queue, but for job j, are on it unchanged after the step.
OtherJobsKept(j) ==
    \A k \in DOMAIN jobs \ {j} : k \in DOMAIN jobs' /\ jobs'[k] = jobs[k]

\* C19: an /alert or a start-monitoring press of one user, and a tick of one user's
\* job, leave what every other user has in user_data and on the job queue as it was;
\* a job keeps the chat id it was scheduled with, which is that of the user who pressed
\* the button, and its notification goes to that chat id.
C19_UsersAreIsolated ==
    [][/\ \A u \in Users, msg \in AlertMessages :
            alert(u, msg) =>
              \A v \in Users \ {u} : Owned(v, user_data', jobs') = Owned(v, user_data, jobs)
       /\ \A u \in Users :
            button_handler(u) =>
              /\ \A v \in Users \ {u} :
                    Owned(v, user_data', jobs') = Owned(v, user_data, jobs)
              /\ \A j \in DOMAIN jobs' \ DOMAIN jobs : jobs'[j].user_id = u
       /\ \A j \in JobIds :
            (\/ requests_get(j)
             \/ \E api \in ApiReplies : check_alerts(j, api)
             \/ \E o \in SendOutcomes : send_message_done(j, o)) =>
              /\ user_data' = user_data
              /\ \A v \in Users \ {jobs[j].user_id} :
                    Owned(v, user_data', jobs') = Owned(v, user_data, jobs)
              /\ OtherJobsKept(j)
              /\ \A e \in outbox' \ outbox : e.job = j /\ e.chat_id = jobs[j].user_id
       /\ \A j \in DOMAIN jobs \cap DOMAIN jobs' : jobs'[j].user_id = jobs[j].user_id]_vars

\* Both users have an alert and a job; one user's notification was delivered to that
\* user's chat while the other user's job is on the queue, never evaluated.
C19_Witness ==
    \E u \in Users, e \in outbox :
        /\ e.chat_id = u
        /\ e.outcome = "delivered"
        /\ \A v \in Users : HasAlert(v)
        /\ \E k \in DOMAIN jobs :
              /\ jobs[k].user_id # u
              /\ jobs[k].ticks = 0
              /\ jobs[k].alert = user_data[jobs[k].user_id]["alerts"]

====
